---------------------------- MODULE Spec2Model ----------------------------
(***************************************************************************)
(* A model of the data-quality detection pass of day_24_data_quality.py:   *)
(* a table is built from a dict of lists (pd.DataFrame), and nine scans    *)
(* run over it in script order, each printing its findings.  The printed   *)
(* findings are collected in `report`.                                     *)
(*                                                                         *)
(* Cells are tagged values.  Text is a tuple of one-character strings so   *)
(* that str.strip() and str.lower() can be computed.  Floats are held as   *)
(* an exact number of hundredths, and the float arithmetic of the outlier  *)
(* scan is modelled by exact arithmetic on naturals of any size (tuples of *)
(* base-10000 limbs), which agrees with float64 on every comparison that   *)
(* is not within rounding distance of its threshold.                       *)
(*                                                                         *)
(* The module also models initialize_application of                        *)
(* day_27_exception_intermediate.py, with variables of its own: each       *)
(* specification moves the variables of one program and leaves the others  *)
(* as they start.                                                          *)
(***************************************************************************)
EXTENDS Integers, Sequences, FiniteSets, TLC

(***************************************************************************)
(* Cells                                                                   *)
(***************************************************************************)

\* None / NaN: the missing marker.
None == [kind |-> "missing", n |-> 0, s |-> <<>>]

\* A Python int.
IntCell(n) == [kind |-> "int", n |-> n, s |-> <<>>]

\* A float, held as its number of hundredths (75.50 is FloatCell(7550)).
FloatCell(h) == [kind |-> "float", n |-> h, s |-> <<>>]

\* A Python str, as the tuple of its characters.
StrCell(chars) == [kind |-> "str", n |-> 0, s |-> chars]

\* pd.isnull / pd.notna on one cell.
IsNull(c) == c.kind = "missing"

NotNa(c) == ~IsNull(c)

\* The number a numeric cell holds, in hundredths (int 25 and float 25.0 agree).
Hundredths(c) == IF c.kind = "int" THEN 100 * c.n ELSE c.n

(***************************************************************************)
(* Text                                                                    *)
(***************************************************************************)

Whitespace == {" ", "\t", "\n", "\r", "\f"}

UpperCase == <<"A", "B", "C", "D", "E", "F", "G", "H", "I", "J", "K", "L", "M",
               "N", "O", "P", "Q", "R", "S", "T", "U", "V", "W", "X", "Y", "Z">>

LowerCase == <<"a", "b", "c", "d", "e", "f", "g", "h", "i", "j", "k", "l", "m",
               "n", "o", "p", "q", "r", "s", "t", "u", "v", "w", "x", "y", "z">>

LowerChar(ch) ==
    IF \E i \in DOMAIN UpperCase : UpperCase[i] = ch
    THEN LowerCase[CHOOSE i \in DOMAIN UpperCase : UpperCase[i] = ch]
    ELSE ch

RECURSIVE LStrip(_)
LStrip(chars) ==
    IF chars # <<>> /\ Head(chars) \in Whitespace THEN LStrip(Tail(chars)) ELSE chars

RECURSIVE RStrip(_)
RStrip(chars) ==
    IF chars # <<>> /\ chars[Len(chars)] \in Whitespace
    THEN RStrip(SubSeq(chars, 1, Len(chars) - 1))
    ELSE chars

\* Series.str.strip() on one cell: a non-string gives NaN.
StrStrip(c) == IF c.kind = "str" THEN StrCell(RStrip(LStrip(c.s))) ELSE None

\* Series.str.lower() on one cell: a non-string gives NaN.
StrLower(c) ==
    IF c.kind = "str" THEN StrCell([i \in DOMAIN c.s |-> LowerChar(c.s[i])]) ELSE None

(***************************************************************************)
(* Sequences                                                               *)
(***************************************************************************)

\* set(list)
SetOf(seq) == {seq[i] : i \in DOMAIN seq}

Min(a, b) == IF a < b THEN a ELSE b

\* list[:k]
Slice(seq, k) == SubSeq(seq, 1, Min(k, Len(seq)))

\* The elements of seq at the positions where keep is TRUE, in order.
RECURSIVE Select(_, _)
Select(seq, keep) ==
    IF seq = <<>> THEN <<>>
    ELSE (IF Head(keep) THEN <<Head(seq)>> ELSE <<>>) \o Select(Tail(seq), Tail(keep))

\* Series.sum() of a boolean mask.
RECURSIVE CountTrue(_)
CountTrue(mask) ==
    IF mask = <<>> THEN 0
    ELSE (IF Head(mask) THEN 1 ELSE 0) + CountTrue(Tail(mask))

\* Series.dropna()
DropNa(col) == Select(col, [i \in DOMAIN col |-> NotNa(col[i])])

\* Series.unique(): the distinct values in order of first appearance (NaN is one value).
RECURSIVE Unique(_)
Unique(col) ==
    IF col = <<>> THEN <<>>
    ELSE LET init == Unique(SubSeq(col, 1, Len(col) - 1))
             last == col[Len(col)]
         IN  IF last \in SetOf(init) THEN init ELSE Append(init, last)

\* Series.nunique(dropna=True)
NUnique(col) == Len(Unique(DropNa(col)))

\* Series.nunique(dropna=False)
NUniqueWithNa(col) == Len(Unique(col))

(***************************************************************************)
(* Table construction: pd.DataFrame(problematic_data)                      *)
(***************************************************************************)

\* The dtype pandas infers for one column of the dict.
InferDtype(col) ==
    IF \E i \in DOMAIN col : col[i].kind = "str" THEN "object"
    ELSE IF \A i \in DOMAIN col : IsNull(col[i]) THEN "object"
    ELSE IF \E i \in DOMAIN col : col[i].kind = "float" \/ IsNull(col[i]) THEN "float64"
    ELSE "int64"

\* The cell as the column holds it: an int stored in a float64 column is a float.
Coerce(c, dtype) ==
    IF dtype = "float64" /\ c.kind = "int" THEN FloatCell(100 * c.n) ELSE c

\* pd.DataFrame(dict): the columns in the dict's key order, each with its dtype.
DataFrame(dict) ==
    [columns |-> dict.keys,
     dtype   |-> [c \in SetOf(dict.keys) |-> InferDtype(dict.lists[c])],
     data    |-> [c \in SetOf(dict.keys) |->
                    [i \in DOMAIN dict.lists[c] |->
                        Coerce(dict.lists[c][i], InferDtype(dict.lists[c]))]],
     nrows   |-> IF dict.keys = <<>> THEN 0 ELSE Len(dict.lists[dict.keys[1]])]

\* type(value) as the type scan prints it.
TypeName(c, dtype) ==
    IF IsNull(c) THEN (IF dtype = "object" THEN "NoneType" ELSE "float")
    ELSE c.kind

ColumnNames == <<"customer_id", "customer_name", "age", "email",
                 "purchase_amount", "region", "status">>

Active == StrCell(<<"a", "c", "t", "i", "v", "e">>)

\* The dataset of the script.
problematic_data ==
    [keys |-> ColumnNames,
     lists |-> [
      customer_id |-> <<IntCell(1001), IntCell(1002), IntCell(1003), IntCell(1004),
                        IntCell(1005), IntCell(1006), IntCell(1007), IntCell(1008),
                        IntCell(1009), IntCell(1005)>>,
      customer_name |-> <<
          StrCell(<<"J", "o", "h", "n", " ", "D", "o", "e">>),
          StrCell(<<"j", "a", "n", "e", " ", "s", "m", "i", "t", "h">>),
          StrCell(<<" ", " ", "B", "o", "b", " ", "W", "i", "l", "s", "o", "n", " ", " ">>),
          StrCell(<<"A", "l", "i", "c", "e", " ", "B", "r", "o", "w", "n">>),
          StrCell(<<"C", "H", "A", "R", "L", "I", "E", " ", "D", "A", "V", "I", "S">>),
          StrCell(<<"E", "m", "m", "a", " ", "W", "a", "t", "s", "o", "n">>),
          StrCell(<<"F", "r", "a", "n", "k", " ", "M", "i", "l", "l", "e", "r">>),
          StrCell(<<"G", "r", "a", "c", "e", " ", "L", "e", "e">>),
          StrCell(<<"H", "e", "n", "r", "y", " ", "F", "o", "r", "d">>),
          StrCell(<<"A", "l", "i", "c", "e", " ", "B", "r", "o", "w", "n">>)
      >>,
      age |-> <<IntCell(25), None, IntCell(45), IntCell(-5), IntCell(67),
                StrCell(<<"3", "0">>), IntCell(22), IntCell(150), IntCell(33),
                IntCell(28)>>,
      email |-> <<
          StrCell(<<"j", "o", "h", "n", "@", "e", "m", "a", "i", "l", ".", "c", "o", "m">>),
          StrCell(<<"j", "a", "n", "e", ".", "e", "m", "a", "i", "l", ".", "c", "o", "m">>),
          None,
          StrCell(<<"a", "l", "i", "c", "e", "@", "e", "m", "a", "i", "l", ".", "c", "o", "m">>),
          StrCell(<<"c", "h", "a", "r", "l", "i", "e", "@", "e", "m", "a", "i", "l">>),
          StrCell(<<"e", "m", "m", "a", "@", "e", "m", "a", "i", "l", ".", "c", "o", "m">>),
          None,
          StrCell(<<"g", "r", "a", "c", "e", "@", "e", "m", "a", "i", "l", ".", "c", "o", "m">>),
          StrCell(<<"h", "e", "n", "r", "y", "@", "e", "m", "a", "i", "l", ".", "c", "o", "m">>),
          StrCell(<<"a", "l", "i", "c", "e", "@", "e", "m", "a", "i", "l", ".", "c", "o", "m">>)
      >>,
      purchase_amount |-> <<FloatCell(5000), FloatCell(7550), FloatCell(100000000), None,
                            FloatCell(12000), FloatCell(8530), FloatCell(4500), None,
                            FloatCell(9500), FloatCell(12000)>>,
      region |-> <<None, None, None, None, None, None, None, None, None, None>>,
      status |-> <<Active, Active, Active, Active, Active,
                   Active, Active, Active, Active, Active>>
     ]]

\* The schema the structural scan expects.
ExpectedColumns == <<"customer_id", "customer_name", "age", "email",
                     "purchase_amoutn", "country", "signup_date">>

(***************************************************************************)
(* Exact arithmetic on large naturals, for the float arithmetic of the     *)
(* outlier scan: a natural is the tuple of its base-10000 digits, least    *)
(* significant first, with no leading zero digit (0 is <<>>).              *)
(***************************************************************************)

RECURSIVE BigOf(_)
BigOf(n) == IF n = 0 THEN <<>> ELSE <<n % 10000>> \o BigOf(n \div 10000)

RECURSIVE BigAddC(_, _, _)
BigAddC(a, b, carry) ==
    IF a = <<>> /\ b = <<>> THEN BigOf(carry)
    ELSE LET x == (IF a = <<>> THEN 0 ELSE Head(a))
                  + (IF b = <<>> THEN 0 ELSE Head(b)) + carry
         IN  <<x % 10000>> \o BigAddC(IF a = <<>> THEN <<>> ELSE Tail(a),
                                      IF b = <<>> THEN <<>> ELSE Tail(b),
                                      x \div 10000)

BigAdd(a, b) == BigAddC(a, b, 0)

RECURSIVE BigMulDigit(_, _, _)
BigMulDigit(a, d, carry) ==
    IF a = <<>> THEN BigOf(carry)
    ELSE LET x == Head(a) * d + carry
         IN  <<x % 10000>> \o BigMulDigit(Tail(a), d, x \div 10000)

RECURSIVE BigMul(_, _)
BigMul(a, b) ==
    IF a = <<>> \/ b = <<>> THEN <<>>
    ELSE LET rest == BigMul(a, Tail(b))
         IN  BigAdd(IF Head(b) = 0 THEN <<>> ELSE BigMulDigit(a, Head(b), 0),
                    IF rest = <<>> THEN <<>> ELSE <<0>> \o rest)

RECURSIVE BigLessFrom(_, _, _)
BigLessFrom(a, b, k) ==
    IF k = 0 THEN FALSE
    ELSE IF a[k] # b[k] THEN a[k] < b[k]
    ELSE BigLessFrom(a, b, k - 1)

BigLess(a, b) ==
    IF Len(a) # Len(b) THEN Len(a) < Len(b) ELSE BigLessFrom(a, b, Len(a))

Abs(x) == IF x < 0 THEN -x ELSE x

Sign(x) == IF x < 0 THEN -1 ELSE IF x > 0 THEN 1 ELSE 0

RECURSIVE Sum(_)
Sum(xs) == IF xs = <<>> THEN 0 ELSE Head(xs) + Sum(Tail(xs))

RECURSIVE Insert(_, _)
Insert(x, sorted) ==
    IF sorted = <<>> THEN <<x>>
    ELSE IF x <= Head(sorted) THEN <<x>> \o sorted
    ELSE <<Head(sorted)>> \o Insert(x, Tail(sorted))

RECURSIVE Sort(_)
Sort(xs) == IF xs = <<>> THEN <<>> ELSE Insert(Head(xs), Sort(Tail(xs)))

(***************************************************************************)
(* The scans, as functions of the table.  Row indices are those pandas     *)
(* prints: the first row is row 0.                                         *)
(***************************************************************************)

HasColumn(frame, c) == c \in SetOf(frame.columns)

\* df.notnull() on one column: the mask of the cells that hold a value.
NotNullMask(col) == [i \in DOMAIN col |-> NotNa(col[i])]

\* df.isnull() on one column.
IsNullMask(col) == [i \in DOMAIN col |-> IsNull(col[i])]

\* Part 2: df.isnull().any(), df.isnull().sum(), (df.isnull().sum() / len(df)) * 100.
\* A percentage is held as the exact fraction num / den.
MissingValues(frame) ==
    [scan |-> "missing values",
     has_missing_values |->
        [c \in SetOf(frame.columns) |-> \E i \in DOMAIN frame.data[c] : IsNull(frame.data[c][i])],
     missing_value_counts |->
        [c \in SetOf(frame.columns) |-> CountTrue(IsNullMask(frame.data[c]))],
     total_rows |-> frame.nrows,
     missing_percentage |->
        [c \in SetOf(frame.columns) |->
            [num |-> CountTrue(IsNullMask(frame.data[c])) * 100, den |-> frame.nrows]]]

\* The value and the type of the cells of 'age' that hold a value only.
ValueTypesOfPresent(frame) ==
    LET col == frame.data["age"]
        present == Select([i \in DOMAIN col |-> i], [i \in DOMAIN col |-> NotNa(col[i])])
    IN  [scan |-> "data types",
         rows |-> [k \in DOMAIN present |->
                     [row |-> present[k] - 1,
                      value |-> col[present[k]],
                      type |-> TypeName(col[present[k]], frame.dtype["age"])]]]

\* Part 3: the value and the type of each cell of the 'age' column.
ValueTypes(frame) ==
    [scan |-> "data types",
     rows |-> [i \in DOMAIN frame.data["age"] |->
                 [row |-> i - 1,
                  value |-> frame.data["age"][i],
                  type |-> TypeName(frame.data["age"][i], frame.dtype["age"])]]]

\* The values of row i in the columns of subset, as duplicated() compares them.
RowKey(frame, subset, i) == [k \in DOMAIN subset |-> frame.data[subset[k]][i]]

RowKeys(frame, subset) == [i \in 1..frame.nrows |-> RowKey(frame, subset, i)]

\* duplicated(keep='first') over hashed rows: a row is marked when its key was seen before.
RECURSIVE MarkSeen(_, _)
MarkSeen(keys, seen) ==
    IF keys = <<>> THEN <<>>
    ELSE <<Head(keys) \in seen>> \o MarkSeen(Tail(keys), seen \cup {Head(keys)})

\* duplicated(keep='last'): a row is marked when a later row has its key.
DuplicatedKeepLast(frame, subset) ==
    LET keys == RowKeys(frame, subset)
    IN  [i \in DOMAIN keys |-> \E j \in DOMAIN keys : j > i /\ keys[j] = keys[i]]

DuplicatedKeepFirst(frame, subset) == MarkSeen(RowKeys(frame, subset), {})

\* The number of entries of keys equal to key.
RECURSIVE Occurrences(_, _)
Occurrences(keys, key) ==
    IF keys = <<>> THEN 0
    ELSE (IF Head(keys) = key THEN 1 ELSE 0) + Occurrences(Tail(keys), key)

\* duplicated(keep=False), had a missing key been equal to no other key.
DuplicatedKeepNoneButMissing(frame, subset) ==
    LET keys == RowKeys(frame, subset)
    IN  [i \in DOMAIN keys |->
            /\ \A k \in DOMAIN keys[i] : NotNa(keys[i][k])
            /\ Occurrences(keys, keys[i]) > 1]

\* duplicated(keep=False): every row whose key occurs more than once is marked.
DuplicatedKeepNone(frame, subset) ==
    LET keys == RowKeys(frame, subset)
    IN  [i \in DOMAIN keys |-> Occurrences(keys, keys[i]) > 1]

\* The row indices a boolean mask selects (df[mask]).
Flagged(mask) == {i - 1 : i \in {j \in DOMAIN mask : mask[j]}}

\* Part 4: duplicate rows.
DuplicateRows(frame) ==
    LET duplicate_mask == DuplicatedKeepFirst(frame, frame.columns)
    IN  [scan |-> "duplicate rows",
         duplicate_mask |-> duplicate_mask,
         number_of_duplicates |-> CountTrue(duplicate_mask),
         shown |-> IF CountTrue(duplicate_mask) > 0 THEN Flagged(duplicate_mask) ELSE {}]

\* Series.value_counts(): the count of each non-missing value.
ValueCounts(col) ==
    {[value |-> v, count |-> Occurrences(col, v)] : v \in SetOf(DropNa(col))}

\* Part 5: duplicate identifiers.
DuplicateIds(frame) ==
    LET duplicate_ids == DuplicatedKeepNone(frame, <<"customer_id">>)
        unique_id_count == NUnique(frame.data["customer_id"])
        total_row_counts == frame.nrows
        id_counts == ValueCounts(frame.data["customer_id"])
    IN  [scan |-> "duplicate identifiers",
         duplicate_ids |-> duplicate_ids,
         shown |-> Flagged(duplicate_ids),
         unique_id_count |-> unique_id_count,
         total_row_counts |-> total_row_counts,
         duplicate_ids_exist |-> unique_id_count < total_row_counts,
         duplicated_id_values |-> {vc \in id_counts : vc.count > 1}]

\* Element-wise != of two Series: a missing value differs from everything.
SeriesNe(a, b) == IsNull(a) \/ IsNull(b) \/ a # b

\* Part 6: inconsistent formatting of 'customer_name'.
Formatting(frame) ==
    LET names == frame.data["customer_name"]
        has_whitespace == [i \in DOMAIN names |-> SeriesNe(names[i], StrStrip(names[i]))]
    IN  [scan |-> "formatting",
         names |-> names,
         has_whitespace |-> has_whitespace,
         with_whitespace |-> Select(names, has_whitespace),
         unique |-> Unique(names),
         unique_lower |-> Unique([i \in DOMAIN names |-> StrLower(names[i])])]

\* The empty columns, had the test been isnull().any().
EmptyColumnsAny(frame) ==
    Select(frame.columns,
           [k \in DOMAIN frame.columns |->
               \E i \in DOMAIN frame.data[frame.columns[k]] :
                   IsNull(frame.data[frame.columns[k]][i])])

\* Part 7: empty and constant columns, each list in column order.
EmptyColumns(frame) ==
    Select(frame.columns,
           [k \in DOMAIN frame.columns |->
               \A i \in DOMAIN frame.data[frame.columns[k]] :
                   IsNull(frame.data[frame.columns[k]][i])])

ConstantColumns(frame) ==
    Select(frame.columns,
           [k \in DOMAIN frame.columns |-> NUnique(frame.data[frame.columns[k]]) = 1])

ConstantEmpty(frame) ==
    LET constant_columns == ConstantColumns(frame)
    IN  [scan |-> "constant and empty columns",
         empty_columns |-> EmptyColumns(frame),
         constant_columns |-> constant_columns,
         constant_value |->
            [k \in DOMAIN constant_columns |->
                [column |-> constant_columns[k],
                 value |-> DropNa(frame.data[constant_columns[k]])[1]]],
         diversity |->
            [c \in SetOf(frame.columns) |->
                [unique |-> NUniqueWithNa(frame.data[c]), total |-> frame.nrows]]]

(***************************************************************************)
(* Part 8: outliers of 'purchase_amount'.  xs are the non-missing amounts  *)
(* in hundredths and n their number.  With S the sum of xs, the deviation  *)
(* of x from the mean is (n*x - S) / n, the sample variance is             *)
(* SSD / (n*n*(n-1)) with SSD the sum of the squares of n*x - S, and the   *)
(* z-score of x has the sign of n*x - S and the square                     *)
(* (n*x - S)^2 * (n-1) / SSD.  A fraction with denominator 0 is NaN.       *)
(***************************************************************************)

ZThreshold == 3

\* The amounts with each missing one counted as 0.
AmountsFillingZero(col) ==
    [i \in DOMAIN col |-> IF NotNa(col[i]) THEN Hundredths(col[i]) ELSE 0]

Amounts(col) == [i \in DOMAIN DropNa(col) |-> Hundredths(DropNa(col)[i])]

Deviation(xs, x) == Len(xs) * x - Sum(xs)

BigSquare(x) == BigMul(BigOf(Abs(x)), BigOf(Abs(x)))

RECURSIVE SumSquaredDeviations(_, _)
SumSquaredDeviations(xs, k) ==
    IF k = 0 THEN <<>>
    ELSE BigAdd(BigSquare(Deviation(xs, xs[k])), SumSquaredDeviations(xs, k - 1))

\* Series.mean(): NaN for no value.
Mean(xs) == [num |-> Sum(xs), den |-> Len(xs)]

\* Series.median(): the middle value, or the mean of the two middle values.
Median(xs) ==
    LET sorted == Sort(xs)
        n == Len(xs)
    IN  IF n = 0 THEN [num |-> 0, den |-> 0]
        ELSE IF n % 2 = 1 THEN [num |-> sorted[(n + 1) \div 2], den |-> 1]
        ELSE [num |-> sorted[n \div 2] + sorted[n \div 2 + 1], den |-> 2]

\* Series.std() squared: the sample variance (divisor n - 1), NaN for fewer than 2 values.
StdSquared(xs) ==
    [num |-> SumSquaredDeviations(xs, Len(xs)),
     den |-> IF Len(xs) < 2 THEN 0 ELSE Len(xs) * Len(xs) * (Len(xs) - 1)]

\* The z-score taken with the population deviation (divisor n).
ZScorePopulation(xs, x) ==
    [sign |-> Sign(Deviation(xs, x)),
     num |-> BigMul(BigSquare(Deviation(xs, x)), BigOf(Len(xs))),
     den |-> SumSquaredDeviations(xs, Len(xs))]

\* (amount - mean_amount) / std_amount, as its sign and its square num / den.
ZScore(xs, x) ==
    [sign |-> Sign(Deviation(xs, x)),
     num |-> BigMul(BigSquare(Deviation(xs, x)), BigOf(Len(xs) - 1)),
     den |-> SumSquaredDeviations(xs, Len(xs))]

\* not (abs(z_score) <= 3): a NaN z-score would come out as an outlier.
IsOutlierUnlessWithin(z) ==
    ~(z.den # <<>> /\ ~BigLess(BigMul(BigOf(ZThreshold * ZThreshold), z.den), z.num))

\* abs(z_score) > 3; a NaN z-score compares False.
IsOutlier(z) ==
    /\ z.den # <<>>
    /\ BigLess(BigMul(BigOf(ZThreshold * ZThreshold), z.den), z.num)

Outliers(frame) ==
    LET col == frame.data["purchase_amount"]
        purchase_amounts == Amounts(col)
        present == Select([i \in DOMAIN col |-> i], [i \in DOMAIN col |-> NotNa(col[i])])
    IN  [scan |-> "outliers",
         mean_amount |-> Mean(purchase_amounts),
         median_amount |-> Median(purchase_amounts),
         std_amount_squared |-> StdSquared(purchase_amounts),
         rows |-> [k \in DOMAIN present |->
                     [row |-> present[k] - 1,
                      amount |-> col[present[k]],
                      z_score |-> ZScore(purchase_amounts, Hundredths(col[present[k]])),
                      is_outlier |->
                          IsOutlier(ZScore(purchase_amounts, Hundredths(col[present[k]])))]]]

(***************************************************************************)
(* Part 9: suspicious or impossible ages.  The if / elif chain is a list   *)
(* of rules tried in order.                                                *)
(***************************************************************************)

AgeRules ==
    <<[test |-> "<", bound |-> 0,   label |-> "NEGATIVE (impossible!)"],
      [test |-> ">", bound |-> 120, label |-> "EXTREMELY HIGH (suspicious!)"],
      [test |-> ">", bound |-> 150, label |-> "IMPOSSIBLE (no human this old)"]>>

Thirty == StrCell(<<"3", "0">>)

\* The condition of one branch, on a numeric age.
Matches(rule, age) ==
    IF rule.test = "<" THEN Hundredths(age) < 100 * rule.bound
    ELSE Hundredths(age) > 100 * rule.bound

\* The first rule from rule k on whose condition holds, 0 when none does.
RECURSIVE FirstMatch(_, _)
FirstMatch(age, k) ==
    IF k > Len(AgeRules) THEN 0
    ELSE IF Matches(AgeRules[k], age) THEN k
    ELSE FirstMatch(age, k + 1)

\* What an independent "if" per rule would print: the label of every rule that holds.
CheckAgeEveryRule(age) ==
    [labels |-> LET hit == Select([k \in DOMAIN AgeRules |-> k],
                                  [k \in DOMAIN AgeRules |-> Matches(AgeRules[k], age)])
                IN  [j \in DOMAIN hit |-> AgeRules[hit[j]].label],
     evaluated |-> Len(AgeRules)]

\* The chain on one numeric age: the labels printed (none or one) and the number
\* of conditions evaluated.
CheckAge(age) ==
    LET m == FirstMatch(age, 1)
    IN  [labels |-> IF m = 0 THEN <<>> ELSE <<AgeRules[m].label>>,
         evaluated |-> IF m = 0 THEN Len(AgeRules) ELSE m]

\* The loop over the rows from row i on: the cells checked, and the error that
\* ended the loop ("TypeError" when a text other than '30' is compared with 0).
RECURSIVE ValidateAges(_, _)
ValidateAges(col, i) ==
    IF i > Len(col) THEN [checked |-> <<>>, error |-> "none"]
    ELSE IF NotNa(col[i]) /\ col[i] # Thirty
    THEN IF col[i].kind = "str"
         THEN [checked |-> <<>>, error |-> "TypeError"]
         ELSE LET rest == ValidateAges(col, i + 1)
              IN  [checked |-> <<[row |-> i - 1,
                                  age |-> col[i],
                                  labels |-> CheckAge(col[i]).labels,
                                  evaluated |-> CheckAge(col[i]).evaluated]>>
                               \o rest.checked,
                   error |-> rest.error]
    ELSE ValidateAges(col, i + 1)

DomainRules(frame) ==
    [scan |-> "suspicious or impossible values",
     checked |-> ValidateAges(frame.data["age"], 1).checked,
     error |-> ValidateAges(frame.data["age"], 1).error]

(***************************************************************************)
(* Part 10: structural issues.                                             *)
(***************************************************************************)

\* The missing columns, had the operands of the difference been swapped.
MissingColumnsSwapped(expected, actual) == SetOf(actual) \ SetOf(expected)

\* set(expected_columns) - set(actual_columns)
MissingColumns(expected, actual) == SetOf(expected) \ SetOf(actual)

\* set(actual_columns) - set(expected_columns)
UnexpectedColumns(expected, actual) == SetOf(actual) \ SetOf(expected)

\* The order check, had it cut the actual columns to the expected length.
OrderDiffersCuttingActual(expected, actual) == Slice(actual, Len(expected)) # expected

\* expected_columns[:len(actual_columns)] != actual_columns
OrderDiffers(expected, actual) == Slice(expected, Len(actual)) # actual

Structure(frame, expected) ==
    [scan |-> "structural issues",
     expected_columns |-> expected,
     actual_columns |-> frame.columns,
     missing_columns |-> MissingColumns(expected, frame.columns),
     unexpected_columns |-> UnexpectedColumns(expected, frame.columns),
     order_differs |-> OrderDiffers(expected, frame.columns),
     expected_count |-> Len(expected),
     actual_count |-> Len(frame.columns),
     shape |-> <<frame.nrows, Len(frame.columns)>>]

(***************************************************************************)
(* Inputs: the dataset of the script, tables of up to MaxRows rows drawn   *)
(* from a few rows that between them hold every kind of cell the scans     *)
(* tell apart, and some fixed tables.                                      *)
(***************************************************************************)

MaxRows == 3

MaxColumns == 3

Row(id, name, age, email, amount, region, status) ==
    [customer_id |-> id, customer_name |-> name, age |-> age, email |-> email,
     purchase_amount |-> amount, region |-> region, status |-> status]

RowAl == Row(IntCell(1001), StrCell(<<"A", "l">>), IntCell(120),
             StrCell(<<"a", "@", "x">>), FloatCell(5000), None, Active)

RowAlSpaced == Row(IntCell(1001), StrCell(<<" ", "A", "l", " ">>), IntCell(-5),
                   None, None, None, Active)

RowAlUpper == Row(IntCell(1002), StrCell(<<"A", "L">>), None,
                  StrCell(<<"a", "@", "x">>), FloatCell(7550), None, None)

RowBo == Row(None, StrCell(<<"B", "o">>), IntCell(151),
             StrCell(<<"b", "@", "x">>), FloatCell(12000), None,
             StrCell(<<"c", "l", "o", "s", "e", "d">>))

RowBlank == Row(None, None, Thirty, None, None, None, Active)

RowBoOld == Row(IntCell(1003), StrCell(<<"B", "o">>), IntCell(121),
                StrCell(<<"b", "@", "x">>), FloatCell(5000), None, Active)

RowCy == Row(IntCell(1004), StrCell(<<"C", "y">>), StrCell(<<"a", "b", "c">>),
             None, FloatCell(5000), None, Active)

RowSet == {RowAl, RowAlSpaced, RowAlUpper, RowBo, RowBlank, RowBoOld, RowCy}

\* The dict of lists holding the given rows.
DictOfRows(rows) ==
    [keys |-> ColumnNames,
     lists |-> [c \in SetOf(ColumnNames) |-> [i \in DOMAIN rows |-> rows[i][c]]]]

\* The dict without one of its keys.
Without(dict, c) ==
    [keys |-> Select(dict.keys, [k \in DOMAIN dict.keys |-> dict.keys[k] # c]),
     lists |-> [d \in SetOf(dict.keys) \ {c} |-> dict.lists[d]]]

SmallTables ==
    {DictOfRows(rows) : rows \in UNION {[1..k -> RowSet] : k \in 1..MaxRows}}

\* Rows [A, B, A, C, A].
RepeatedRows == DictOfRows(<<RowAl, RowAlUpper, RowAl, RowBoOld, RowAl>>)

\* Key values [1001, 1002, 1003, 1005, 1005] on rows that differ elsewhere.
RepeatedKeys ==
    DictOfRows(<<RowAl,
                 RowAlUpper,
                 RowBoOld,
                 [RowBo EXCEPT !.customer_id = IntCell(1005)],
                 [RowAlSpaced EXCEPT !.customer_id = IntCell(1005)]>>)

\* Ten amounts of 50.00 and one of 1,000,000.00.
ElevenAmounts ==
    DictOfRows([i \in 1..11 |->
        IF i = 3 THEN [RowAl EXCEPT !.purchase_amount = FloatCell(100000000)] ELSE RowAl])

RequiredColumns == {"customer_id", "customer_name", "age", "purchase_amount"}

Inputs ==
    {problematic_data, RepeatedRows, RepeatedKeys, ElevenAmounts}
        \cup {Without(problematic_data, c) : c \in RequiredColumns}
        \cup SmallTables

ColumnLetters == {"a", "b", "c", "d"}

\* The keys of a dict are distinct.
ActualSequences ==
    {s \in UNION {[1..k -> ColumnLetters] : k \in 1..MaxColumns} :
        \A i, j \in DOMAIN s : s[i] = s[j] => i = j}

ExpectedSequences == UNION {[1..k -> ColumnLetters] : k \in 1..MaxColumns}

\* A table with the given columns and no rows.
EmptyTable(columns) ==
    [keys |-> columns, lists |-> [c \in SetOf(columns) |-> <<>>]]

(***************************************************************************)
(* Inputs of the outlier scan on its own: every 'purchase_amount' column   *)
(* of up to MaxAmounts cells made of amounts of 50.00, of 75.50, of        *)
(* 1,000,000.00 and of missing cells.  The z-scores do not depend on the   *)
(* order of the cells, so one order stands for each choice of the counts.  *)
(***************************************************************************)

MaxAmounts == 11

AmountCells == <<FloatCell(5000), FloatCell(7550), FloatCell(100000000), None>>

\* counts[k] cells of AmountCells[k], one kind after the other.
RECURSIVE AmountColumn(_, _)
AmountColumn(counts, k) ==
    IF k = 0 THEN <<>>
    ELSE AmountColumn(counts, k - 1) \o [i \in 1..counts[k] |-> AmountCells[k]]

AmountCounts ==
    {counts \in [DOMAIN AmountCells -> 0..MaxAmounts] :
        counts[1] + counts[2] + counts[3] + counts[4] \in 1..MaxAmounts}

AmountTables ==
    {DictOfRows([i \in DOMAIN AmountColumn(counts, Len(AmountCells)) |->
                    [RowAl EXCEPT !.purchase_amount =
                        AmountColumn(counts, Len(AmountCells))[i]]]) :
        counts \in AmountCounts}

(***************************************************************************)
(* State                                                                   *)
(***************************************************************************)

VARIABLES
    data,               \* the dict the table is built from
    df,                 \* the table
    expected_columns,   \* the schema of the structural scan
    pc,                 \* the part of the script that runs next
    report,             \* the findings printed so far in this run
    run,                \* 1 in the first run of the scans, 2 in the second
    report1             \* the findings of the first run, once it ended

\* The state of initialize_application of day_27_exception_intermediate.py.
VARIABLES
    disk,               \* what open() finds under each file name
    app_pc,             \* where initialize_application and its caller stand
    config_index,       \* the position in config_files of the file tried next
    config,             \* the local variable config
    tried,              \* the file names read_config_file was called with
    outcome             \* how the call of initialize_application ended

\* The state of safe_number_from_file of day_26_exception_basic.py.
VARIABLES
    number_file,        \* what open(filename, 'r') finds
    num_pc,             \* where safe_number_from_file stands
    file_handle,        \* the local variable file_handle
    content,            \* the local variable content
    number,             \* the local variable number
    leaving,            \* how the try statement is being left when finally runs
    cleanup_runs,       \* how many times the finally block has run
    number_outcome      \* how the call ended

\* The state of a call of validate_user_data of day_27_exception_intermediate.py.
VARIABLES
    user_data,          \* the dict passed to validate_user_data
    validation          \* how the call ended

\* The accounts of day_28_private_function.py.
VARIABLES
    account_v2,         \* a BankAccount_V2 object
    v2_calls,           \* the amounts deposit was called with, in order
    account_v3,         \* a BankAccount_V3 object
    v3_calls,           \* the calls of deposit and withdraw, in order
    v3_log              \* the lines __log_transaction has printed

tableVars == <<data, df, expected_columns, pc, report, run, report1>>

appVars == <<disk, app_pc, config_index, config, tried, outcome>>

numVars == <<number_file, num_pc, file_handle, content, number, leaving,
             cleanup_runs, number_outcome>>

vars == <<data, df, expected_columns, pc, report, run, report1,
          disk, app_pc, config_index, config, tried, outcome,
          number_file, num_pc, file_handle, content, number, leaving,
          cleanup_runs, number_outcome,
          user_data, validation,
          account_v2, v2_calls, account_v3, v3_calls, v3_log>>

userVars == <<user_data, validation>>

v2Vars == <<account_v2, v2_calls>>

v3Vars == <<account_v3, v3_calls, v3_log>>

\* The variables of the other programs, which a step of one program leaves alone.
notTableVars == <<appVars, numVars, userVars, v2Vars, v3Vars>>

notAppVars == <<tableVars, numVars, userVars, v2Vars, v3Vars>>

notNumVars == <<tableVars, appVars, userVars, v2Vars, v3Vars>>

notUserVars == <<tableVars, appVars, numVars, v2Vars, v3Vars>>

notV2Vars == <<tableVars, appVars, numVars, userVars, v3Vars>>

notV3Vars == <<tableVars, appVars, numVars, userVars, v2Vars>>

config_files == <<"config.json", "config.default.json">>

\* Python's None, and a str.
PyNone == [kind |-> "None"]

PyStr(text) == [kind |-> "str", text |-> text]

\* A file name under which open() finds nothing, a file it may not read,
\* and a file with the given content.
Absent == [state |-> "absent"]

Unreadable == [state |-> "unreadable"]

Holding(text) == [state |-> "file", content |-> text]

NotCalled == [kind |-> "not called"]

\* No file is on the disk and initialize_application has not been called.
AppNotStarted ==
    /\ disk = [f \in SetOf(config_files) |-> Absent]
    /\ app_pc = "start"
    /\ config_index = 1
    /\ config = PyNone
    /\ tried = <<>>
    /\ outcome = NotCalled

\* safe_number_from_file has not been called.
NumberNotRead ==
    /\ number_file = Absent
    /\ num_pc = "start"
    /\ file_handle = PyNone
    /\ content = PyNone
    /\ number = PyNone
    /\ leaving = "nothing"
    /\ cleanup_runs = 0
    /\ number_outcome = NotCalled

\* validate_user_data has not been called.
UserNotValidated ==
    /\ user_data = <<>>
    /\ validation = NotCalled

\* The account objects as BankAccount_V2(owner) and BankAccount_V3(owner)
\* make them, with no call yet.
BankAccount_V2(balance) == [balance |-> balance, transaction_count |-> 0]

BankAccount_V3(balance) ==
    [balance |-> balance, transaction_count |-> 0,
     pin |-> PyStr(<<"1", "2", "3", "4">>)]

AccountsNotUsed ==
    /\ account_v2 = BankAccount_V2(0)
    /\ v2_calls = <<>>
    /\ account_v3 = BankAccount_V3(0)
    /\ v3_calls = <<>>
    /\ v3_log = <<>>

\* The table of the data-quality script has not been scanned.
TableNotScanned ==
    /\ data = problematic_data
    /\ df = DataFrame(data)
    /\ expected_columns = ExpectedColumns
    /\ pc = "missing values"
    /\ report = <<>>
    /\ run = 1
    /\ report1 = <<>>

KeyError(c) == [scan |-> "error", error |-> "KeyError", column |-> c]

Init ==
    /\ data \in Inputs
    /\ df = DataFrame(data)
    /\ expected_columns = ExpectedColumns
    /\ pc = "missing values"
    /\ report = <<>>
    /\ run = 1
    /\ report1 = <<>>
    /\ AppNotStarted
    /\ NumberNotRead
    /\ UserNotValidated
    /\ AccountsNotUsed

MissingValueScan ==
    /\ pc = "missing values"
    /\ report' = Append(report, MissingValues(df))
    /\ pc' = "data types"
    /\ UNCHANGED <<data, df, expected_columns, run, report1>>
    /\ UNCHANGED notTableVars

TypeScan ==
    /\ pc = "data types"
    /\ IF HasColumn(df, "age")
       THEN report' = Append(report, ValueTypes(df)) /\ pc' = "duplicate rows"
       ELSE report' = Append(report, KeyError("age")) /\ pc' = "error"
    /\ UNCHANGED <<data, df, expected_columns, run, report1>>
    /\ UNCHANGED notTableVars

\* drop_duplicates(inplace=True): the rows the mask does not mark.
DropDuplicates(frame) ==
    [frame EXCEPT
        !.data = [c \in SetOf(frame.columns) |->
                    Select(frame.data[c],
                           [i \in DOMAIN frame.data[c] |->
                               ~DuplicatedKeepFirst(frame, frame.columns)[i]])],
        !.nrows = frame.nrows - CountTrue(DuplicatedKeepFirst(frame, frame.columns))]

\* The duplicate-row scan, had it removed the rows it found.
DuplicateRowScanInPlace ==
    /\ pc = "duplicate rows"
    /\ report' = Append(report, DuplicateRows(df))
    /\ df' = DropDuplicates(df)
    /\ pc' = "duplicate identifiers"
    /\ UNCHANGED <<data, expected_columns, run, report1>>
    /\ UNCHANGED notTableVars

DuplicateRowScan ==
    /\ pc = "duplicate rows"
    /\ report' = Append(report, DuplicateRows(df))
    /\ pc' = "duplicate identifiers"
    /\ UNCHANGED <<data, df, expected_columns, run, report1>>
    /\ UNCHANGED notTableVars

\* The duplicate-key scan, had it passed over a table without the key column.
DuplicateIdScanIfPresent ==
    /\ pc = "duplicate identifiers"
    /\ IF HasColumn(df, "customer_id")
       THEN report' = Append(report, DuplicateIds(df)) /\ pc' = "formatting"
       ELSE report' = report /\ pc' = "formatting"
    /\ UNCHANGED <<data, df, expected_columns, run, report1>>
    /\ UNCHANGED notTableVars

DuplicateIdScan ==
    /\ pc = "duplicate identifiers"
    /\ IF HasColumn(df, "customer_id")
       THEN report' = Append(report, DuplicateIds(df)) /\ pc' = "formatting"
       ELSE report' = Append(report, KeyError("customer_id")) /\ pc' = "error"
    /\ UNCHANGED <<data, df, expected_columns, run, report1>>
    /\ UNCHANGED notTableVars

FormatScan ==
    /\ pc = "formatting"
    /\ IF HasColumn(df, "customer_name")
       THEN report' = Append(report, Formatting(df)) /\ pc' = "constant and empty columns"
       ELSE report' = Append(report, KeyError("customer_name")) /\ pc' = "error"
    /\ UNCHANGED <<data, df, expected_columns, run, report1>>
    /\ UNCHANGED notTableVars

\* The constant/empty scan, had it kept its lists from one run to the next.
ConstantEmptyScanKeepingLists ==
    /\ pc = "constant and empty columns"
    /\ report' = Append(report,
            [ConstantEmpty(df) EXCEPT
                !.empty_columns =
                    (IF run = 2 THEN report1[Len(report) + 1].empty_columns ELSE <<>>) \o @])
    /\ pc' = "outliers"
    /\ UNCHANGED <<data, df, expected_columns, run, report1>>
    /\ UNCHANGED notTableVars

ConstantEmptyScan ==
    /\ pc = "constant and empty columns"
    /\ report' = Append(report, ConstantEmpty(df))
    /\ pc' = "outliers"
    /\ UNCHANGED <<data, df, expected_columns, run, report1>>
    /\ UNCHANGED notTableVars

OutlierScan ==
    /\ pc = "outliers"
    /\ IF HasColumn(df, "purchase_amount")
       THEN report' = Append(report, Outliers(df)) /\ pc' = "impossible values"
       ELSE report' = Append(report, KeyError("purchase_amount")) /\ pc' = "error"
    /\ UNCHANGED <<data, df, expected_columns, run, report1>>
    /\ UNCHANGED notTableVars

\* The loop prints what it found before a TypeError ends the script.
DomainRuleScan ==
    /\ pc = "impossible values"
    /\ report' = Append(report, DomainRules(df))
    /\ pc' = IF DomainRules(df).error = "none" THEN "structural issues" ELSE "error"
    /\ UNCHANGED <<data, df, expected_columns, run, report1>>
    /\ UNCHANGED notTableVars

StructuralScan ==
    /\ pc = "structural issues"
    /\ report' = Append(report, Structure(df, expected_columns))
    /\ pc' = "done"
    /\ UNCHANGED <<data, df, expected_columns, run, report1>>
    /\ UNCHANGED notTableVars

\* The scans are run a second time on the table as the first run left it.
RunAgain ==
    /\ pc \in {"done", "error"}
    /\ run = 1
    /\ report1' = report
    /\ report' = <<>>
    /\ run' = 2
    /\ pc' = "missing values"
    /\ UNCHANGED <<data, df, expected_columns>>
    /\ UNCHANGED notTableVars

Next ==
    \/ MissingValueScan
    \/ TypeScan
    \/ DuplicateRowScan
    \/ DuplicateIdScan
    \/ FormatScan
    \/ ConstantEmptyScan
    \/ OutlierScan
    \/ DomainRuleScan
    \/ StructuralScan
    \/ RunAgain

Spec == Init /\ [][Next]_vars

(***************************************************************************)
(* The structural scan on its own, over every pair of a column sequence    *)
(* and an expected schema of one to MaxColumns names.                      *)
(***************************************************************************)

InitStructural ==
    /\ data \in {EmptyTable(columns) : columns \in ActualSequences}
    /\ df = DataFrame(data)
    /\ expected_columns \in ExpectedSequences
    /\ pc = "structural issues"
    /\ report = <<>>
    /\ run = 1
    /\ report1 = <<>>
    /\ AppNotStarted
    /\ NumberNotRead
    /\ UserNotValidated
    /\ AccountsNotUsed

NextStructural == StructuralScan

SpecStructural == InitStructural /\ [][NextStructural]_vars

(***************************************************************************)
(* The outlier scan on its own, over the amount columns of AmountTables    *)
(* and the dataset of the script.                                          *)
(***************************************************************************)

InitOutliers ==
    /\ data \in AmountTables \cup {problematic_data}
    /\ df = DataFrame(data)
    /\ expected_columns = ExpectedColumns
    /\ pc = "outliers"
    /\ report = <<>>
    /\ run = 1
    /\ report1 = <<>>
    /\ AppNotStarted
    /\ NumberNotRead
    /\ UserNotValidated
    /\ AccountsNotUsed

NextOutliers == OutlierScan

SpecOutliers == InitOutliers /\ [][NextOutliers]_vars

(***************************************************************************)
(* The nine scans in another order.  The script order is run first, then   *)
(* the scans are run again on the same table, one at a time, in any order; *)
(* an exception ends either run.  The findings of the second run are kept  *)
(* in script position, so that the same scans give the same report in      *)
(* whatever order they ran.                                                *)
(***************************************************************************)

ScanNames ==
    <<"missing values", "data types", "duplicate rows", "duplicate identifiers",
      "formatting", "constant and empty columns", "outliers",
      "suspicious or impossible values", "structural issues">>

\* What the scan of that name prints, or the exception that ends it.
ScanResult(name, frame, expected) ==
    CASE name = "missing values" -> MissingValues(frame)
      [] name = "data types" ->
            IF HasColumn(frame, "age") THEN ValueTypes(frame) ELSE KeyError("age")
      [] name = "duplicate rows" -> DuplicateRows(frame)
      [] name = "duplicate identifiers" ->
            IF HasColumn(frame, "customer_id") THEN DuplicateIds(frame)
            ELSE KeyError("customer_id")
      [] name = "formatting" ->
            IF HasColumn(frame, "customer_name") THEN Formatting(frame)
            ELSE KeyError("customer_name")
      [] name = "constant and empty columns" -> ConstantEmpty(frame)
      [] name = "outliers" ->
            IF HasColumn(frame, "purchase_amount") THEN Outliers(frame)
            ELSE KeyError("purchase_amount")
      [] name = "suspicious or impossible values" ->
            IF HasColumn(frame, "age") THEN DomainRules(frame) ELSE KeyError("age")
      [] name = "structural issues" -> Structure(frame, expected)

\* The scan ended with an exception.
Raised(result) ==
    \/ result.scan = "error"
    \/ result.scan = "suspicious or impossible values" /\ result.error # "none"

ScriptPosition(name) == CHOOSE k \in DOMAIN ScanNames : ScanNames[k] = name

\* The findings with one more result, put where the script order has it.
InScriptPosition(findings, name, result) ==
    LET earlier == Cardinality({i \in DOMAIN findings :
                        ScriptPosition(findings[i].scan) < ScriptPosition(name)})
    IN  SubSeq(findings, 1, earlier) \o <<result>>
            \o SubSeq(findings, earlier + 1, Len(findings))

OrderInputs ==
    {problematic_data, RepeatedRows, RepeatedKeys}
        \cup {Without(problematic_data, c) : c \in RequiredColumns}
        \cup {DictOfRows(<<row>>) : row \in RowSet}

InitAnyOrder ==
    /\ data \in OrderInputs
    /\ df = DataFrame(data)
    /\ expected_columns = ExpectedColumns
    /\ pc = "missing values"
    /\ report = <<>>
    /\ run = 1
    /\ report1 = <<>>
    /\ AppNotStarted
    /\ NumberNotRead
    /\ UserNotValidated
    /\ AccountsNotUsed

\* The script order has ended; the scans are run again in some other order.
RunInAnotherOrder ==
    /\ pc \in {"done", "error"}
    /\ run = 1
    /\ report1' = report
    /\ report' = <<>>
    /\ run' = 2
    /\ pc' = "any order"
    /\ UNCHANGED <<data, df, expected_columns>>
    /\ UNCHANGED notTableVars

\* Any scan that has not run yet in the second run runs next.
ScanOutOfOrder ==
    /\ pc = "any order"
    /\ \E name \in SetOf(ScanNames) \ {report[i].scan : i \in DOMAIN report} :
          LET result == ScanResult(name, df, expected_columns)
          IN  /\ report' = InScriptPosition(report, name, result)
              /\ pc' = IF Raised(result) THEN "error"
                       ELSE IF Len(report) + 1 = Len(ScanNames) THEN "done"
                       ELSE "any order"
    /\ UNCHANGED <<data, df, expected_columns, run, report1>>
    /\ UNCHANGED notTableVars

NextAnyOrder ==
    \/ MissingValueScan
    \/ TypeScan
    \/ DuplicateRowScan
    \/ DuplicateIdScan
    \/ FormatScan
    \/ ConstantEmptyScan
    \/ OutlierScan
    \/ DomainRuleScan
    \/ StructuralScan
    \/ RunInAnotherOrder
    \/ ScanOutOfOrder

SpecAnyOrder == InitAnyOrder /\ [][NextAnyOrder]_vars

(***************************************************************************)
(* initialize_application of day_27_exception_intermediate.py and the      *)
(* try / except RuntimeError of __main__ around its call.  The statements  *)
(* after the try statement of the loop body (if config is None: raise      *)
(* RuntimeError, the success message and return config) are indented into  *)
(* the loop body, where both branches of the try statement leave the       *)
(* iteration (break, continue) or the function (any other exception); no   *)
(* step reaches them, and the function ends where its loop ends.           *)
(***************************************************************************)

Contents == {"", "{}", "{\"debug\": true}", "{\"debug\": false}", "not json"}

FileStates == {Absent, Unreadable} \cup {Holding(text) : text \in Contents}

\* read_config_file(filepath): the content of the file, or the exception
\* open() raises; FileNotFoundError is caught, reported and raised again,
\* any other exception passes through.
read_config_file(filepath) ==
    IF disk[filepath].state = "file"
    THEN [raised |-> "none", content |-> PyStr(disk[filepath].content)]
    ELSE IF disk[filepath].state = "absent"
    THEN [raised |-> "FileNotFoundError", content |-> PyNone]
    ELSE [raised |-> "PermissionError", content |-> PyNone]

InitApplication ==
    /\ data = problematic_data
    /\ df = DataFrame(data)
    /\ expected_columns = ExpectedColumns
    /\ pc = "missing values"
    /\ report = <<>>
    /\ run = 1
    /\ report1 = <<>>
    /\ disk \in [SetOf(config_files) -> FileStates]
    /\ app_pc = "start"
    /\ config_index = 1
    /\ config = PyNone
    /\ tried = <<>>
    /\ outcome = NotCalled
    /\ NumberNotRead
    /\ UserNotValidated
    /\ AccountsNotUsed

\* config_files = [...]; config = None; the loop starts.
StartApplication ==
    /\ app_pc = "start"
    /\ config' = PyNone
    /\ config_index' = 1
    /\ app_pc' = "for"
    /\ UNCHANGED <<disk, tried, outcome>>
    /\ UNCHANGED notAppVars

\* One iteration of the loop: the try statement around read_config_file.
TryConfigFile ==
    /\ app_pc = "for"
    /\ config_index <= Len(config_files)
    /\ LET config_file == config_files[config_index]
           read == read_config_file(config_file)
       IN  /\ tried' = Append(tried, config_file)
           /\ IF read.raised = "none"
              THEN \* config = ...; break
                   /\ config' = read.content
                   /\ app_pc' = "after for"
                   /\ UNCHANGED <<config_index, outcome>>
              ELSE IF read.raised = "FileNotFoundError"
              THEN \* except FileNotFoundError: continue
                   /\ config_index' = config_index + 1
                   /\ UNCHANGED <<config, app_pc, outcome>>
              ELSE \* no handler: the exception leaves the function
                   /\ outcome' = [kind |-> "raised", exception |-> read.raised]
                   /\ app_pc' = "called"
                   /\ UNCHANGED <<config, config_index>>
    /\ UNCHANGED disk
    /\ UNCHANGED notAppVars

\* The list is exhausted: the loop ends.
LoopEnds ==
    /\ app_pc = "for"
    /\ config_index > Len(config_files)
    /\ app_pc' = "after for"
    /\ UNCHANGED <<disk, config_index, config, tried, outcome>>
    /\ UNCHANGED notAppVars

\* Nothing follows the loop: the function returns None.
FunctionEnds ==
    /\ app_pc = "after for"
    /\ outcome' = [kind |-> "returned", value |-> PyNone]
    /\ app_pc' = "called"
    /\ UNCHANGED <<disk, config_index, config, tried>>
    /\ UNCHANGED notAppVars

\* __main__: try: initialize_application() except RuntimeError: print the
\* fatal error.  Another exception ends the script.
MainHandlesTheCall ==
    /\ app_pc = "called"
    /\ app_pc' = IF outcome.kind = "returned" THEN "main goes on"
                 ELSE IF outcome.exception = "RuntimeError" THEN "fatal error printed"
                 ELSE "traceback"
    /\ UNCHANGED <<disk, config_index, config, tried, outcome>>
    /\ UNCHANGED notAppVars

NextApplication ==
    \/ StartApplication
    \/ TryConfigFile
    \/ LoopEnds
    \/ FunctionEnds
    \/ MainHandlesTheCall

SpecApplication == InitApplication /\ [][NextApplication]_vars

(***************************************************************************)
(* safe_number_from_file of day_26_exception_basic.py.  The text of the    *)
(* file is a tuple of characters; float(content) is computed by reading    *)
(* the decimal notation: a float is its class (finite, zero, inf, nan),    *)
(* its sign, the digits of its mantissa without leading zeros, and the     *)
(* power of ten they are multiplied by.  A literal beyond the largest      *)
(* double is inf.  The texts hold no digit separator '_' and no digit      *)
(* outside ASCII.                                                          *)
(***************************************************************************)

DigitChars == <<"0", "1", "2", "3", "4", "5", "6", "7", "8", "9">>

IsDigit(ch) == \E i \in DOMAIN DigitChars : DigitChars[i] = ch

DigitValue(ch) == (CHOOSE i \in DOMAIN DigitChars : DigitChars[i] = ch) - 1

AllDigits(chars) == \A i \in DOMAIN chars : IsDigit(chars[i])

\* The digits without their leading zeros.
RECURSIVE DropLeadingZeros(_)
DropLeadingZeros(chars) ==
    IF chars # <<>> /\ Head(chars) = "0" THEN DropLeadingZeros(Tail(chars)) ELSE chars

\* The natural number a short run of digits writes.
RECURSIVE NaturalOf(_)
NaturalOf(chars) ==
    IF chars = <<>> THEN 0
    ELSE 10 * NaturalOf(SubSeq(chars, 1, Len(chars) - 1)) + DigitValue(chars[Len(chars)])

\* The first nine digits of the mantissa as a number, zeros filling a shorter one.
LeadingNine(digits) ==
    NaturalOf([i \in 1..9 |-> IF i <= Len(digits) THEN digits[i] ELSE "0"])

\* The decimal order of magnitude of a finite float: that of 1.5e3 is 3.
Magnitude(x) == Len(x.digits) - 1 + x.exp10

PyFloat(class, negative, digits, exp10) ==
    [kind |-> "float", class |-> class, negative |-> negative,
     digits |-> digits, exp10 |-> exp10]

\* The largest double is 1.7976931348623157e308.
BeyondDouble(digits, exp10) ==
    \/ Len(digits) - 1 + exp10 > 308
    \/ Len(digits) - 1 + exp10 = 308 /\ LeadingNine(digits) > 179769313

\* float(text): the float the text writes, or a ValueError.
ParseFloat(text) ==
    LET stripped == RStrip(LStrip(text))
        signed == stripped # <<>> /\ stripped[1] \in {"+", "-"}
        negative == stripped # <<>> /\ stripped[1] = "-"
        body == IF signed THEN Tail(stripped) ELSE stripped
        lowered == [i \in DOMAIN body |-> LowerChar(body[i])]
        es == {i \in DOMAIN body : lowered[i] = "e"}
        e == IF es = {} THEN Len(body) + 1 ELSE CHOOSE i \in es : \A j \in es : i <= j
        mantissa == SubSeq(body, 1, e - 1)
        exponent == SubSeq(body, e + 1, Len(body))
        exp_signed == exponent # <<>> /\ exponent[1] \in {"+", "-"}
        exp_digits == IF exp_signed THEN Tail(exponent) ELSE exponent
        exp_value == IF exponent # <<>> /\ exponent[1] = "-"
                     THEN 0 - NaturalOf(exp_digits) ELSE NaturalOf(exp_digits)
        dots == {i \in DOMAIN mantissa : mantissa[i] = "."}
        dot == IF dots = {} THEN Len(mantissa) + 1
               ELSE CHOOSE i \in dots : \A j \in dots : i <= j
        whole == SubSeq(mantissa, 1, dot - 1)
        fraction == SubSeq(mantissa, dot + 1, Len(mantissa))
        digits == DropLeadingZeros(whole \o fraction)
        well_formed ==
            /\ AllDigits(whole) /\ AllDigits(fraction)
            /\ whole \o fraction # <<>>
            /\ es # {} => (exp_digits # <<>> /\ AllDigits(exp_digits))
    IN  IF lowered \in {<<"i", "n", "f">>, <<"i", "n", "f", "i", "n", "i", "t", "y">>}
        THEN [raised |-> "none", value |-> PyFloat("inf", negative, <<>>, 0)]
        ELSE IF lowered = <<"n", "a", "n">>
        THEN [raised |-> "none", value |-> PyFloat("nan", negative, <<>>, 0)]
        ELSE IF ~well_formed
        THEN [raised |-> "ValueError", value |-> PyNone]
        ELSE IF digits = <<>>
        THEN [raised |-> "none", value |-> PyFloat("zero", negative, <<>>, 0)]
        ELSE IF BeyondDouble(digits, exp_value - Len(fraction))
        THEN [raised |-> "none", value |-> PyFloat("inf", negative, <<>>, 0)]
        ELSE [raised |-> "none",
              value |-> PyFloat("finite", negative, digits, exp_value - Len(fraction))]

\* number ** 2 raises OverflowError when the square of a finite float is
\* beyond the largest double, whose square root is 1.3407807929942596e154.
SquareOverflows(x) ==
    /\ x.class = "finite"
    /\ \/ Magnitude(x) > 154
       \/ Magnitude(x) = 154 /\ LeadingNine(x.digits) > 134078079

NumberContents ==
    {<<"4", "2">>,
     <<" ", "4", "2", " ", "\n">>,
     <<"-", "7", ".", "5">>,
     <<"+", "3">>,
     <<".", "5">>,
     <<"5", ".">>,
     <<"1", "e", "3">>,
     <<"1", "E", "-", "2">>,
     <<"0">>,
     <<"0", ".", "0">>,
     <<"1", "e", "1", "5", "4">>,
     <<"1", ".", "4", "e", "1", "5", "4">>,
     <<"1", "e", "2", "0", "0">>,
     <<"-", "1", "e", "2", "0", "0">>,
     <<"1", "e", "4", "0", "0">>,
     <<"i", "n", "f">>,
     <<"-", "I", "n", "f", "i", "n", "i", "t", "y">>,
     <<"n", "a", "n">>,
     <<"n", "o", "t", " ", "a", " ", "n", "u", "m", "b", "e", "r">>,
     <<>>,
     <<" ", " ">>,
     <<"4", " ", "2">>,
     <<"1", ".", "2", ".", "3">>,
     <<"e", "5">>,
     <<"1", "e">>,
     <<"-", "-", "1">>,
     <<".">>,
     <<"1", "e", "+">>,
     <<"1", "2", "a", "b", "c">>}

NumberFiles == {Absent, Unreadable} \cup {Holding(text) : text \in NumberContents}

OpenFile == [kind |-> "file", closed |-> FALSE]

ClosedFile == [kind |-> "file", closed |-> TRUE]

\* An except clause that returns None.
HandledBy(exception) == [how |-> "return", value |-> PyNone, handler |-> exception]

InitNumber ==
    /\ TableNotScanned
    /\ AppNotStarted
    /\ number_file \in NumberFiles
    /\ num_pc = "start"
    /\ file_handle = PyNone
    /\ content = PyNone
    /\ number = PyNone
    /\ leaving = "nothing"
    /\ cleanup_runs = 0
    /\ number_outcome = NotCalled
    /\ UserNotValidated
    /\ AccountsNotUsed

\* file_handle = None; number = None
StartNumber ==
    /\ num_pc = "start"
    /\ file_handle' = PyNone
    /\ number' = PyNone
    /\ num_pc' = "open"
    /\ UNCHANGED <<number_file, content, leaving, cleanup_runs, number_outcome>>
    /\ UNCHANGED notNumVars

\* Step 1: file_handle = open(filename, 'r')
OpenNumberFile ==
    /\ num_pc = "open"
    /\ IF number_file.state = "file"
       THEN /\ file_handle' = OpenFile
            /\ num_pc' = "read"
            /\ UNCHANGED leaving
       ELSE /\ leaving' = HandledBy(IF number_file.state = "absent"
                                    THEN "FileNotFoundError" ELSE "PermissionError")
            /\ num_pc' = "finally"
            /\ UNCHANGED file_handle
    /\ UNCHANGED <<number_file, content, number, cleanup_runs, number_outcome>>
    /\ UNCHANGED notNumVars

\* Step 2: content = file_handle.read().strip()
ReadNumberFile ==
    /\ num_pc = "read"
    /\ content' = PyStr(RStrip(LStrip(number_file.content)))
    /\ num_pc' = "convert"
    /\ UNCHANGED <<number_file, file_handle, number, leaving, cleanup_runs, number_outcome>>
    /\ UNCHANGED notNumVars

\* Step 3: number = float(content)
ConvertToNumber ==
    /\ num_pc = "convert"
    /\ IF ParseFloat(content.text).raised = "none"
       THEN /\ number' = ParseFloat(content.text).value
            /\ num_pc' = "else"
            /\ UNCHANGED leaving
       ELSE /\ leaving' = HandledBy("ValueError")
            /\ num_pc' = "finally"
            /\ UNCHANGED number
    /\ UNCHANGED <<number_file, file_handle, content, cleanup_runs, number_outcome>>
    /\ UNCHANGED notNumVars

\* The else clause prints number and number ** 2; no except clause covers it.
ElseClause ==
    /\ num_pc = "else"
    /\ leaving' = IF SquareOverflows(number)
                  THEN [how |-> "raise", exception |-> "OverflowError"]
                  ELSE [how |-> "fall through"]
    /\ num_pc' = "finally"
    /\ UNCHANGED <<number_file, file_handle, content, number, cleanup_runs, number_outcome>>
    /\ UNCHANGED notNumVars

\* finally: if file_handle: file_handle.close()
FinallyClause ==
    /\ num_pc = "finally"
    /\ file_handle' = IF file_handle # PyNone THEN ClosedFile ELSE file_handle
    /\ cleanup_runs' = cleanup_runs + 1
    /\ num_pc' = "leave"
    /\ UNCHANGED <<number_file, content, number, leaving, number_outcome>>
    /\ UNCHANGED notNumVars

\* The pending return or exception takes effect; otherwise return number.
LeaveNumber ==
    /\ num_pc = "leave"
    /\ number_outcome' =
            IF leaving.how = "return" THEN [kind |-> "returned", value |-> leaving.value]
            ELSE IF leaving.how = "raise"
            THEN [kind |-> "raised", exception |-> leaving.exception]
            ELSE [kind |-> "returned", value |-> number]
    /\ num_pc' = "left"
    /\ UNCHANGED <<number_file, file_handle, content, number, leaving, cleanup_runs>>
    /\ UNCHANGED notNumVars

NextNumber ==
    \/ StartNumber
    \/ OpenNumberFile
    \/ ReadNumberFile
    \/ ConvertToNumber
    \/ ElseClause
    \/ FinallyClause
    \/ LeaveNumber

SpecNumber == InitNumber /\ [][NextNumber]_vars

(***************************************************************************)
(* validate_user_data of day_27_exception_intermediate.py.  A dict is a    *)
(* function from its keys to its values.                                   *)
(***************************************************************************)

PyInt(n) == [kind |-> "int", n |-> n]

PyBool(b) == [kind |-> "bool", b |-> b]

required_fields == <<"username", "email", "age">>

MissingFieldError(field_name) ==
    [kind |-> "raised", exception |-> "MissingFieldError", field_name |-> field_name]

InvalidFormatError(field_name, expected_format, actual_value) ==
    [kind |-> "raised", exception |-> "InvalidFormatError", field_name |-> field_name,
     expected_format |-> expected_format, actual_value |-> actual_value]

\* '@' not in email: a test on the characters of a str; None and numbers
\* are not iterable, and the test raises TypeError.
NoAtSign(email) ==
    IF email.kind = "str"
    THEN [raised |-> "none", value |-> ~(\E i \in DOMAIN email.text : email.text[i] = "@")]
    ELSE [raised |-> "TypeError", value |-> FALSE]

\* isinstance(age, int): bool is a subclass of int.
IsInstanceOfInt(value) == value.kind \in {"int", "bool"}

\* age < 0 for an int or a bool (False is 0, True is 1).
BelowZero(value) == value.kind = "int" /\ value.n < 0

\* not isinstance(age, int) or age < 0
AgeIsInvalid(age) == ~IsInstanceOfInt(age) \/ BelowZero(age)

\* The first of the fields from position k on that the dict lacks, or "".
RECURSIVE FirstMissingField(_, _)
FirstMissingField(dict, k) ==
    IF k > Len(required_fields) THEN ""
    ELSE IF required_fields[k] \notin DOMAIN dict THEN required_fields[k]
    ELSE FirstMissingField(dict, k + 1)

validate_user_data(dict) ==
    IF FirstMissingField(dict, 1) # ""
    THEN MissingFieldError(FirstMissingField(dict, 1))
    ELSE IF NoAtSign(dict["email"]).raised # "none"
    THEN [kind |-> "raised", exception |-> NoAtSign(dict["email"]).raised]
    ELSE IF NoAtSign(dict["email"]).value
    THEN InvalidFormatError("email", "email address", dict["email"])
    ELSE IF AgeIsInvalid(dict["age"])
    THEN InvalidFormatError("age", "positive integer", dict["age"])
    ELSE [kind |-> "returned", value |-> PyBool(TRUE)]

Usernames == {PyStr(<<"j", "h", "o", "n">>), PyNone}

Emails ==
    {PyStr(<<"j", "@", "e", ".", "c">>), PyStr(<<"j", ".", "e">>), PyStr(<<"@">>),
     PyStr(<<>>), PyNone, PyInt(5)}

Ages ==
    {PyInt(25), PyInt(1), PyInt(0), PyInt(-5), PyStr(<<"2", "5">>), PyNone,
     PyBool(TRUE), PyBool(FALSE), PyFloat("finite", FALSE, <<"2", "5">>, -1)}

\* The dicts with some of the three fields, each with a value of its set.
UserDicts ==
    UNION {{dict \in [keys -> Usernames \cup Emails \cup Ages] :
                /\ "username" \in keys => dict["username"] \in Usernames
                /\ "email" \in keys => dict["email"] \in Emails
                /\ "age" \in keys => dict["age"] \in Ages}
           : keys \in SUBSET SetOf(required_fields)}

InitUser ==
    /\ TableNotScanned
    /\ AppNotStarted
    /\ NumberNotRead
    /\ user_data \in UserDicts
    /\ validation = NotCalled
    /\ AccountsNotUsed

ValidateUserData ==
    /\ validation = NotCalled
    /\ validation' = validate_user_data(user_data)
    /\ UNCHANGED user_data
    /\ UNCHANGED notUserVars

NextUser == ValidateUserData

SpecUser == InitUser /\ [][NextUser]_vars

(***************************************************************************)
(* BankAccount_V2 and BankAccount_V3 of day_28_private_function.py.  Each  *)
(* account takes up to MaxCalls calls, with amounts of Amounts; a withdraw *)
(* also gives one of Pins.                                                 *)
(***************************************************************************)

MaxCalls == 3

DepositAmounts == {-10, 0, 75, 600}

OpeningBalances == {0, 200, 500}

Pins == {PyStr(<<"1", "2", "3", "4">>), PyStr(<<"0", "0", "0", "0">>), PyInt(1234)}

\* _validate_amount(amount), had it let 0 through.
ValidateAmountFromZero(amount) == amount >= 0

\* _validate_amount(amount)
ValidateAmount(amount) == amount > 0

\* __verify_pin(pin), had it only looked at the kind of value given.
VerifyPinByKind(account, pin) == pin.kind = account.pin.kind

\* __verify_pin(pin)
VerifyPin(account, pin) == pin = account.pin

\* __log_transaction(transaction_type, amount)
LogTransaction(transaction_type, amount) == [type |-> transaction_type, amount |-> amount]

InitAccountV2 ==
    /\ TableNotScanned
    /\ AppNotStarted
    /\ NumberNotRead
    /\ UserNotValidated
    /\ account_v2 \in {BankAccount_V2(balance) : balance \in OpeningBalances}
    /\ v2_calls = <<>>
    /\ account_v3 = BankAccount_V3(0)
    /\ v3_calls = <<>>
    /\ v3_log = <<>>

\* BankAccount_V2.deposit(amount)
DepositV2 ==
    /\ Len(v2_calls) < MaxCalls
    /\ \E amount \in DepositAmounts :
          /\ v2_calls' = Append(v2_calls, amount)
          /\ IF ValidateAmount(amount)
             THEN account_v2' =
                    [account_v2 EXCEPT !.balance = @ + amount, !.transaction_count = @ + 1]
             ELSE account_v2' = account_v2
    /\ UNCHANGED <<account_v3, v3_calls, v3_log>>
    /\ UNCHANGED notV2Vars

NextAccountV2 == DepositV2

SpecAccountV2 == InitAccountV2 /\ [][NextAccountV2]_vars

InitAccountV3 ==
    /\ TableNotScanned
    /\ AppNotStarted
    /\ NumberNotRead
    /\ UserNotValidated
    /\ account_v2 = BankAccount_V2(0)
    /\ v2_calls = <<>>
    /\ account_v3 \in {BankAccount_V3(balance) : balance \in OpeningBalances}
    /\ v3_calls = <<>>
    /\ v3_log = <<>>

\* BankAccount_V3.deposit(amount)
DepositV3 ==
    /\ Len(v3_calls) < MaxCalls
    /\ \E amount \in DepositAmounts :
          /\ v3_calls' = Append(v3_calls, [method |-> "deposit", amount |-> amount, pin |-> PyNone])
          /\ IF ValidateAmount(amount)
             THEN /\ account_v3' =
                        [account_v3 EXCEPT !.balance = @ + amount, !.transaction_count = @ + 1]
                  /\ v3_log' = Append(v3_log, LogTransaction("deposit", amount))
             ELSE UNCHANGED <<account_v3, v3_log>>
    /\ UNCHANGED <<account_v2, v2_calls>>
    /\ UNCHANGED notV3Vars

\* BankAccount_V3.withdraw(amount, pin)
WithdrawV3 ==
    /\ Len(v3_calls) < MaxCalls
    /\ \E amount \in DepositAmounts, pin \in Pins :
          /\ v3_calls' = Append(v3_calls, [method |-> "withdraw", amount |-> amount, pin |-> pin])
          /\ IF VerifyPin(account_v3, pin)
             THEN IF amount <= account_v3.balance
                  THEN /\ account_v3' = [account_v3 EXCEPT !.balance = @ - amount]
                       /\ v3_log' = Append(v3_log, LogTransaction("withdraw", amount))
                  ELSE UNCHANGED <<account_v3, v3_log>>
             ELSE UNCHANGED <<account_v3, v3_log>>
    /\ UNCHANGED <<account_v2, v2_calls>>
    /\ UNCHANGED notV3Vars

NextAccountV3 ==
    \/ DepositV3
    \/ WithdrawV3

SpecAccountV3 == InitAccountV3 /\ [][NextAccountV3]_vars

(***************************************************************************)
(* Properties                                                              *)
(***************************************************************************)

\* Whether the scan of that name has printed its findings in this run.
Scanned(name) == \E i \in DOMAIN report : report[i].scan = name

\* The findings of the scan of that name.
Findings(name) == report[CHOOSE i \in DOMAIN report : report[i].scan = name]

\* Two cells hold the same value, missing markers counting as equal.
SameValue(a, b) == (IsNull(a) /\ IsNull(b)) \/ (NotNa(a) /\ NotNa(b) /\ a = b)

\* C1: the scans only read the table: at every point of the pass, after each
\* scan and after the last one, the column sequence and every cell of the
\* table are those of the table built from the dataset before the first scan.
TableIsNeverWritten == df = DataFrame(data)

\* C1: both runs of the nine scans have ended on the script's dataset.
TableIsNeverWrittenWitness ==
    /\ data = problematic_data
    /\ run = 2
    /\ pc = "done"
    /\ Len(report) = 9
    /\ df.columns = ColumnNames
    /\ df.data["age"][4] = IntCell(-5)

DuplicateRowsAreLaterCopies ==
    Scanned("duplicate rows") =>
        LET found == Findings("duplicate rows")
        IN  /\ \A i \in 1..df.nrows :
                found.duplicate_mask[i] <=>
                    \E j \in 1..(i - 1) : \A c \in SetOf(df.columns) :
                        SameValue(df.data[c][j], df.data[c][i])
            /\ found.number_of_duplicates =
                    Cardinality({i \in 1..df.nrows : found.duplicate_mask[i]})
            /\ data = RepeatedRows =>
                    /\ Flagged(found.duplicate_mask) = {2, 4}
                    /\ found.number_of_duplicates = 2

\* C3: rows [A, B, A, C, A] have been scanned.
DuplicateRowsWitness ==
    /\ data = RepeatedRows
    /\ Scanned("duplicate rows")
    /\ Findings("duplicate rows").shown = {2, 4}

\* C4: the duplicate-key scan flags a row exactly when another row holds the
\* same customer_id, so every row of a group of two or more, the first one
\* included; for keys [1001, 1002, 1003, 1005, 1005] it flags rows 3 and 4.
DuplicateKeysFlagWholeGroup ==
    Scanned("duplicate identifiers") =>
        LET found == Findings("duplicate identifiers")
            ids == df.data["customer_id"]
        IN  /\ \A i \in 1..df.nrows :
                found.duplicate_ids[i] <=>
                    \E j \in 1..df.nrows : j # i /\ SameValue(ids[j], ids[i])
            /\ found.shown = {i - 1 : i \in {k \in 1..df.nrows : found.duplicate_ids[k]}}
            /\ data = RepeatedKeys => found.shown = {3, 4}

\* C4: keys [1001, 1002, 1003, 1005, 1005] have been scanned.
DuplicateKeysWitness ==
    /\ data = RepeatedKeys
    /\ Scanned("duplicate identifiers")
    /\ Findings("duplicate identifiers").duplicate_ids = <<FALSE, FALSE, FALSE, TRUE, TRUE>>

\* The non-missing values of a column.
Present(col) == {col[i] : i \in {j \in DOMAIN col : NotNa(col[j])}}

\* C5: a column whose cells are all missing is listed as empty and not as
\* constant; a column with exactly one distinct non-missing value, with or
\* without missing cells beside it, is listed as constant with that value;
\* no column is in both lists.
EmptyAndConstantAreDisjoint ==
    Scanned("constant and empty columns") =>
        LET found == Findings("constant and empty columns")
        IN  /\ \A c \in SetOf(df.columns) :
                /\ Present(df.data[c]) = {} =>
                        /\ c \in SetOf(found.empty_columns)
                        /\ c \notin SetOf(found.constant_columns)
                /\ Cardinality(Present(df.data[c])) = 1 =>
                        \E k \in DOMAIN found.constant_columns :
                            /\ found.constant_columns[k] = c
                            /\ found.constant_value[k].column = c
                            /\ found.constant_value[k].value \in Present(df.data[c])
            /\ SetOf(found.empty_columns) \cap SetOf(found.constant_columns) = {}

\* C5: a scanned table has an empty column and a constant column with missing cells.
EmptyAndConstantWitness ==
    /\ Scanned("constant and empty columns")
    /\ "region" \in SetOf(Findings("constant and empty columns").empty_columns)
    /\ "status" \in SetOf(Findings("constant and empty columns").constant_columns)
    /\ \E i \in 1..df.nrows : IsNull(df.data["status"][i])

\* The rows the outlier scan flags.
OutlierRows(found) == {found.rows[k].row : k \in {j \in DOMAIN found.rows : found.rows[j].is_outlier}}

\* C6: on the script's dataset, whose non-missing amounts are 50, 75.5,
\* 1000000, 120, 85.3, 45, 95 and 120, the outlier scan flags the cell
\* holding 1,000,000 (row 2) and no other cell.
MillionIsTheOnlyOutlier ==
    (data = problematic_data /\ Scanned("outliers")) =>
        OutlierRows(Findings("outliers")) = {2}

\* C7: the rules are tried in order and the first one that holds gives the
\* label: a checked cell gets at most one label, the label is that of the
\* first rule whose condition holds, no condition after it is evaluated, and
\* an age of -5 gets the label of the first rule.
FirstMatchingRuleWins ==
    Scanned("suspicious or impossible values") =>
        \A k \in DOMAIN Findings("suspicious or impossible values").checked :
            LET cell == Findings("suspicious or impossible values").checked[k]
                holds == {r \in DOMAIN AgeRules : Matches(AgeRules[r], cell.age)}
            IN  /\ Len(cell.labels) <= 1
                /\ holds = {} => cell.labels = <<>> /\ cell.evaluated = Len(AgeRules)
                /\ holds # {} =>
                        /\ \A r \in holds : cell.evaluated <= r
                        /\ cell.evaluated \in holds
                        /\ cell.labels = <<AgeRules[cell.evaluated].label>>
                /\ Hundredths(cell.age) = -500 =>
                        /\ cell.labels = <<"NEGATIVE (impossible!)">>
                        /\ cell.evaluated = 1

\* C7: an age of -5 has been labelled by the first rule.
FirstMatchingRuleWitness ==
    /\ Scanned("suspicious or impossible values")
    /\ \E k \in DOMAIN Findings("suspicious or impossible values").checked :
            LET cell == Findings("suspicious or impossible values").checked[k]
            IN  /\ cell.age = IntCell(-5)
                /\ cell.labels = <<"NEGATIVE (impossible!)">>
                /\ cell.evaluated = 1

\* C8: a numeric age below 0 is labelled impossible (negative), one above 150
\* impossible (no human this old), one above 120 and at most 150 suspicious
\* (extremely high), and every other numeric age gets no label.
AgeLabelsFollowTheRanges ==
    Scanned("suspicious or impossible values") =>
        \A k \in DOMAIN Findings("suspicious or impossible values").checked :
            LET cell == Findings("suspicious or impossible values").checked[k]
                age == Hundredths(cell.age)
            IN  cell.labels =
                    IF age < 0 THEN <<"NEGATIVE (impossible!)">>
                    ELSE IF age > 15000 THEN <<"IMPOSSIBLE (no human this old)">>
                    ELSE IF age > 12000 THEN <<"EXTREMELY HIGH (suspicious!)">>
                    ELSE <<>>

\* C9 as stated: the order flag is true exactly when the actual sequence cut
\* to the length of the expected one differs from the expected sequence.
OrderFlagCutsActual ==
    Scanned("structural issues") =>
        LET found == Findings("structural issues")
        IN  found.order_differs <=>
                SubSeq(found.actual_columns, 1,
                       Min(Len(found.expected_columns), Len(found.actual_columns)))
                    # found.expected_columns

\* C9 as the script computes it: the order flag is false exactly when the
\* actual sequence is a prefix of the expected one (no longer than it, and
\* equal to it name by name), that is, true exactly when the expected
\* sequence cut to the length of the actual one differs from the actual
\* sequence; for expected [a, b, c] and actual [a, c, b] it is true.
OrderFlagCutsExpected ==
    Scanned("structural issues") =>
        LET found == Findings("structural issues")
            actual == found.actual_columns
            expected == found.expected_columns
        IN  /\ ~found.order_differs <=>
                    /\ Len(actual) <= Len(expected)
                    /\ \A i \in DOMAIN actual : actual[i] = expected[i]
            /\ (expected = <<"a", "b", "c">> /\ actual = <<"a", "c", "b">>)
                    => found.order_differs

\* C9: expected [a, b, c] and actual [a, c, b] have been compared.
OrderFlagWitness ==
    /\ Scanned("structural issues")
    /\ Findings("structural issues").expected_columns = <<"a", "b", "c">>
    /\ Findings("structural issues").actual_columns = <<"a", "c", "b">>
    /\ Findings("structural issues").order_differs

\* C10: the missing columns are exactly the names of the expected sequence
\* that are not in the actual one, the unexpected columns exactly the names
\* of the actual sequence that are not in the expected one, the two sets are
\* disjoint, and both are empty when actual is a permutation of expected.
ColumnSetsAreDifferences ==
    Scanned("structural issues") =>
        LET found == Findings("structural issues")
            actual == found.actual_columns
            expected == found.expected_columns
            InSeq(name, seq) == \E i \in DOMAIN seq : seq[i] = name
            names == SetOf(actual) \cup SetOf(expected)
                        \cup found.missing_columns \cup found.unexpected_columns
        IN  /\ \A name \in names :
                /\ name \in found.missing_columns <=>
                        InSeq(name, expected) /\ ~InSeq(name, actual)
                /\ name \in found.unexpected_columns <=>
                        InSeq(name, actual) /\ ~InSeq(name, expected)
            /\ found.missing_columns \cap found.unexpected_columns = {}
            /\ (/\ Len(actual) = Len(expected)
                /\ \A name \in names :
                        Occurrences(actual, name) = Occurrences(expected, name))
                    => found.missing_columns = {} /\ found.unexpected_columns = {}

\* C10: a permutation of the expected columns has been compared with them.
ColumnSetsWitness ==
    /\ Scanned("structural issues")
    /\ Findings("structural issues").expected_columns = <<"a", "b", "c">>
    /\ Findings("structural issues").actual_columns = <<"a", "c", "b">>
    /\ Findings("structural issues").missing_columns = {}
    /\ Findings("structural issues").unexpected_columns = {}

\* C11: the missing-value scan reports, for each column, the number of its
\* cells that are missing; the counts of all columns add up to the number of
\* missing cells of the table counted cell by cell; the percentage of a column
\* is its count over the number of rows times 100, so 100 for a column whose
\* cells are all missing.
MissingCountsAreExact ==
    Scanned("missing values") =>
        LET found == Findings("missing values")
            missing_rows(c) == {i \in 1..df.nrows : IsNull(df.data[c][i])}
            missing_cells == {cell \in SetOf(df.columns) \X (1..df.nrows) :
                                IsNull(df.data[cell[1]][cell[2]])}
            counts == [k \in DOMAIN df.columns |-> found.missing_value_counts[df.columns[k]]]
        IN  /\ DOMAIN found.missing_value_counts = SetOf(df.columns)
            /\ \A c \in SetOf(df.columns) :
                /\ found.missing_value_counts[c] = Cardinality(missing_rows(c))
                /\ found.has_missing_values[c] <=> missing_rows(c) # {}
                /\ found.missing_percentage[c].den = found.total_rows
                /\ found.missing_percentage[c].num = found.missing_value_counts[c] * 100
                /\ missing_rows(c) = 1..df.nrows =>
                        found.missing_percentage[c].num = 100 * found.missing_percentage[c].den
            /\ found.total_rows = df.nrows
            /\ Sum(counts) = Cardinality(missing_cells)

\* C11: the script's dataset has been scanned: one age is missing and every
\* region is.
MissingCountsWitness ==
    /\ data = problematic_data
    /\ Scanned("missing values")
    /\ Findings("missing values").missing_value_counts["age"] = 1
    /\ Findings("missing values").missing_value_counts["region"] = 10
    /\ Findings("missing values").missing_percentage["region"] = [num |-> 1000, den |-> 10]

\* The rows (counted from 1) whose amount is not missing.
PresentAmounts == {i \in 1..df.nrows : NotNa(df.data["purchase_amount"][i])}

\* The deviation of the amounts cannot be computed or is 0: fewer than two
\* amounts are present, or all the present amounts are equal.
NoSpread ==
    \/ Cardinality(PresentAmounts) < 2
    \/ \A i, j \in PresentAmounts :
            Hundredths(df.data["purchase_amount"][i]) = Hundredths(df.data["purchase_amount"][j])

TextAgeNeverStopsTheRun ==
    Scanned("suspicious or impossible values") =>
        /\ Findings("suspicious or impossible values").error = "none"
        /\ pc \in {"structural issues", "done"}
        /\ pc = "done" => Scanned("structural issues")

\* The rows (counted from 1) of the age cells that hold a value of a kind
\* other than the most frequent kind among the cells that hold a value.
MinorityKindRows ==
    LET col == df.data["age"]
        present == {i \in 1..df.nrows : NotNa(col[i])}
        count(kind) == Cardinality({i \in present : col[i].kind = kind})
    IN  {i \in present : \E j \in present : count(col[j].kind) > count(col[i].kind)}

\* C15 as stated: the type scan records a finding for exactly the age cells
\* that hold a value whose kind is not the dominant kind of the column.
TypeFindingsAreTheMinority ==
    Scanned("data types") =>
        {Findings("data types").rows[k].row + 1 : k \in DOMAIN Findings("data types").rows}
            = MinorityKindRows

\* C15 as the script computes it: the type scan prints one line for every
\* cell of the age column, missing cells and cells of the most frequent kind
\* included, in row order, with the cell's row index, value and type; it
\* singles out no cell.
TypeScanListsEveryCell ==
    Scanned("data types") =>
        LET found == Findings("data types")
        IN  /\ Len(found.rows) = df.nrows
            /\ \A i \in 1..df.nrows :
                /\ found.rows[i].row = i - 1
                /\ found.rows[i].value = df.data["age"][i]
                /\ NotNa(df.data["age"][i]) => found.rows[i].type = df.data["age"][i].kind
                /\ IsNull(df.data["age"][i]) => found.rows[i].type \in {"NoneType", "float"}

\* C15: the script's dataset has been scanned: ten lines, the text '30' of
\* row 5 and the missing age of row 1 among them.
TypeScanWitness ==
    /\ data = problematic_data
    /\ Scanned("data types")
    /\ Len(Findings("data types").rows) = 10
    /\ Findings("data types").rows[6].type = "str"
    /\ IsNull(Findings("data types").rows[2].value)
    /\ MinorityKindRows = {6}

\* C16: the key values the duplicate-key scan reports as occurring several
\* times are exactly the key values that more than one row holds, a missing
\* key held by several rows included, and a row is flagged exactly when its
\* key is one of the reported values.
DuplicatedKeyValuesMatchFlags ==
    Scanned("duplicate identifiers") =>
        LET found == Findings("duplicate identifiers")
            ids == df.data["customer_id"]
            reported(cell) == \E vc \in found.duplicated_id_values : SameValue(vc.value, cell)
            holders(cell) == {i \in 1..df.nrows : SameValue(ids[i], cell)}
        IN  /\ \A i \in 1..df.nrows :
                /\ reported(ids[i]) <=> Cardinality(holders(ids[i])) > 1
                /\ found.duplicate_ids[i] <=> reported(ids[i])
            /\ \A vc \in found.duplicated_id_values :
                Cardinality(holders(vc.value)) > 1

\* The present amounts, in hundredths, in row order.
PresentAmountValues ==
    LET col == df.data["purchase_amount"]
        rows == Select([i \in 1..df.nrows |-> i], [i \in 1..df.nrows |-> NotNa(col[i])])
    IN  [k \in DOMAIN rows |-> Hundredths(col[rows[k]])]

RECURSIVE BigSumOfSquares(_)
BigSumOfSquares(xs) ==
    IF xs = <<>> THEN <<>> ELSE BigAdd(BigSquare(Head(xs)), BigSumOfSquares(Tail(xs)))

\* C17: the mean and the deviation are taken over the present amounts only,
\* the deviation is the sample deviation (divisor n - 1), a z-score is given
\* for exactly the present amounts, and a cell is flagged exactly when the
\* absolute value of its z-score is above 3, 3 itself excluded.  With n
\* present amounts x of sum S, SSD is the sum of the (n*x - S)^2, which is
\* n * (n * sum of x^2 - S^2); the variance is SSD / (n*n*(n-1)) and the
\* square of the z-score of x is (n*x - S)^2 * (n-1) / SSD.
ZScoresFollowTheSample ==
    Scanned("outliers") =>
        LET found == Findings("outliers")
            xs == PresentAmountValues
            n == Len(xs)
            S == Sum(xs)
            SSD == found.std_amount_squared.num
        IN  /\ n = Cardinality(PresentAmounts)
            /\ found.mean_amount = [num |-> S, den |-> n]
            /\ BigAdd(SSD, BigMul(BigOf(n), BigSquare(S)))
                    = BigMul(BigOf(n * n), BigSumOfSquares(xs))
            /\ found.std_amount_squared.den = IF n < 2 THEN 0 ELSE n * n * (n - 1)
            /\ {found.rows[k].row + 1 : k \in DOMAIN found.rows} = PresentAmounts
            /\ Len(found.rows) = n
            /\ \A k \in DOMAIN found.rows :
                LET line == found.rows[k]
                    x == Hundredths(df.data["purchase_amount"][line.row + 1])
                IN  /\ line.amount = df.data["purchase_amount"][line.row + 1]
                    /\ line.z_score.sign = Sign(n * x - S)
                    /\ line.z_score.num = BigMul(BigSquare(n * x - S), BigOf(n - 1))
                    /\ line.z_score.den = SSD
                    /\ line.is_outlier <=>
                            /\ SSD # <<>>
                            /\ BigLess(BigMul(BigOf(9), SSD), line.z_score.num)

\* C17: ten amounts of 50 and one of 1,000,000 have been scanned; the z-score
\* of the large one is 10 / sqrt(11), above 3, and it is flagged; the others
\* are not.
ZScoresWitness ==
    /\ data = ElevenAmounts
    /\ Scanned("outliers")
    /\ OutlierRows(Findings("outliers")) = {2}
    /\ Findings("outliers").mean_amount.den = 11

\* C18: the formatting scan lists a customer_name cell as having surrounding
\* whitespace exactly when the cell holds a text that begins or ends with
\* whitespace, that is, differs from its trimmed form; a missing cell is not
\* listed.
WhitespaceListsOnlyUntrimmedText ==
    Scanned("formatting") =>
        LET found == Findings("formatting")
            names == df.data["customer_name"]
        IN  \A i \in 1..df.nrows :
                found.has_whitespace[i] <=>
                    /\ NotNa(names[i])
                    /\ names[i].kind = "str"
                    /\ names[i].s # <<>>
                    /\ \/ names[i].s[1] \in Whitespace
                       \/ names[i].s[Len(names[i].s)] \in Whitespace

\* C19: the scans are independent: whatever the order in which the nine
\* scans run on a table that has the columns they name, each scan gives the
\* result it gives in script order, and once all the scans that can run
\* have run the report is that of the script order.
EveryOrderGivesTheScriptResults ==
    (run = 2 /\ RequiredColumns \subseteq SetOf(df.columns)) =>
        /\ \A i \in DOMAIN report : \E j \in DOMAIN report1 : report1[j] = report[i]
        /\ pc \in {"done", "error"} => report = report1

\* C20: when read_config_file raises FileNotFoundError for every file of the
\* list, initialize_application raises RuntimeError('Application startup
\* failed: No configuration available') after it tried them all in order.
NoConfigRaisesRuntimeError ==
    (/\ \A f \in SetOf(config_files) : disk[f] = Absent
     /\ app_pc \in {"called", "main goes on", "fatal error printed", "traceback"}) =>
        /\ tried = config_files
        /\ outcome = [kind |-> "raised", exception |-> "RuntimeError"]

\* C21: the files are tried in list order; at the first file that
\* read_config_file reads, initialize_application stops trying and returns
\* the content of that file, which is not None, to its caller.
FirstReadableFileIsReturned ==
    \A k \in DOMAIN config_files :
        (/\ disk[config_files[k]].state = "file"
         /\ \A j \in 1..(k - 1) : disk[config_files[j]] = Absent
         /\ app_pc \in {"called", "main goes on", "fatal error printed", "traceback"}) =>
            /\ tried = SubSeq(config_files, 1, k)
            /\ outcome = [kind |-> "returned",
                          value |-> PyStr(disk[config_files[k]].content)]
            /\ outcome.value # PyNone

\* C22: on every path of safe_number_from_file (success, FileNotFoundError,
\* ValueError, PermissionError) the finally block has run exactly once when
\* the function returns and a file that was opened is closed; the function
\* returns None after each handled error and the number the file writes
\* when the file was opened and its text converted.
NumberIsReturnedAfterCleanup ==
    num_pc = "left" =>
        /\ cleanup_runs = 1
        /\ file_handle \in {PyNone, ClosedFile}
        /\ number_file.state = "file" <=> file_handle = ClosedFile
        /\ number_outcome.kind = "returned"
        /\ number_outcome.value =
                IF number_file.state = "file" /\ ParseFloat(number_file.content).raised = "none"
                THEN ParseFloat(number_file.content).value
                ELSE PyNone

\* Whether a value is a positive integer.
IsPositiveInteger(value) == (value.kind = "int" /\ value.n > 0) \/ value = PyBool(TRUE)

\* C23: validate_user_data raises MissingFieldError naming the first absent
\* field in the order username, email, age, before any format test;
\* otherwise InvalidFormatError for 'email' when the email has no '@';
\* otherwise InvalidFormatError for 'age' when the age is not a positive
\* integer; it returns True only when none of these applies.  An email that
\* is not a str is left aside.
ValidationFollowsThePrecedence ==
    (/\ validation # NotCalled
     /\ "email" \in DOMAIN user_data => user_data["email"].kind = "str") =>
        LET absent == {k \in DOMAIN required_fields : required_fields[k] \notin DOMAIN user_data}
            has_at == /\ user_data["email"].kind = "str"
                      /\ \E i \in DOMAIN user_data["email"].text : user_data["email"].text[i] = "@"
        IN  IF absent # {}
            THEN /\ validation.kind = "raised"
                 /\ validation.exception = "MissingFieldError"
                 /\ validation.field_name \notin DOMAIN user_data
                 /\ \A k \in absent :
                        \E j \in absent : j <= k /\ required_fields[j] = validation.field_name
                 /\ \E k \in absent : /\ required_fields[k] = validation.field_name
                                      /\ \A j \in absent : k <= j
            ELSE IF ~has_at
            THEN /\ validation.kind = "raised"
                 /\ validation.exception = "InvalidFormatError"
                 /\ validation.field_name = "email"
            ELSE IF ~IsPositiveInteger(user_data["age"])
            THEN /\ validation.kind = "raised"
                 /\ validation.exception = "InvalidFormatError"
                 /\ validation.field_name = "age"
            ELSE validation = [kind |-> "returned", value |-> PyBool(TRUE)]

\* C24: a withdraw call whose pin is not the PIN of the account leaves the
\* balance and the transaction count as they were and logs no transaction,
\* whatever the state of the account and the amount.
WrongPinChangesNothing ==
    [][(/\ v3_calls' # v3_calls
        /\ v3_calls'[Len(v3_calls')].method = "withdraw"
        /\ v3_calls'[Len(v3_calls')].pin # account_v3.pin)
            => /\ account_v3'.balance = account_v3.balance
               /\ account_v3'.transaction_count = account_v3.transaction_count
               /\ account_v3'.pin = account_v3.pin
               /\ v3_log' = v3_log]_vars

\* C24: after a deposit of 75 on a balance of 500, a withdraw of 75 with the
\* pin '0000' and one with the number 1234 have left the balance at 575.
WrongPinWitness ==
    /\ Len(v3_calls) = 3
    /\ v3_calls[1] = [method |-> "deposit", amount |-> 75, pin |-> PyNone]
    /\ v3_calls[2] = [method |-> "withdraw", amount |-> 75, pin |-> PyStr(<<"0", "0", "0", "0">>)]
    /\ v3_calls[3] = [method |-> "withdraw", amount |-> 75, pin |-> PyInt(1234)]
    /\ account_v3.balance = 575
    /\ account_v3.transaction_count = 1
    /\ Len(v3_log) = 1

\* The amounts above 0 among the amounts deposit was called with.
AcceptedDeposits == Select(v2_calls, [i \in DOMAIN v2_calls |-> v2_calls[i] > 0])

\* C25: a deposit of an amount of 0 or less is refused and leaves the balance
\* and the transaction count as they were; after any sequence of deposit
\* calls the transaction count is the number of calls with an amount above 0
\* and the balance is the opening balance plus the sum of those amounts.
DepositsAddUp ==
    /\ [](/\ account_v2.transaction_count = Len(AcceptedDeposits)
          /\ \E opening \in OpeningBalances :
                account_v2.balance = opening + Sum(AcceptedDeposits))
    /\ [][v2_calls' # v2_calls =>
            LET amount == v2_calls'[Len(v2_calls')]
            IN  IF amount <= 0
                THEN account_v2' = account_v2
                ELSE /\ account_v2'.balance = account_v2.balance + amount
                     /\ account_v2'.transaction_count = account_v2.transaction_count + 1]_vars

\* C25: on an opening balance of 200, deposits of 75, -10 and 0 have left a
\* balance of 275 and one transaction.
DepositsWitness ==
    /\ v2_calls = <<75, -10, 0>>
    /\ account_v2.balance = 275
    /\ account_v2.transaction_count = 1

ElevenAmountsFlagged ==
    /\ Scanned("outliers")
    /\ Cardinality(PresentAmounts) = 11
    /\ OutlierRows(Findings("outliers")) # {}

\* Rows i and j of the table hold the same value in every column, missing
\* markers counting as equal.
SameRow(i, j) == \A c \in SetOf(df.columns) : SameValue(df.data[c][i], df.data[c][j])

\* C27: every row the duplicate-row scan (keep first) flags is also flagged
\* by the duplicate-key scan (keep none), and so is every earlier row it is
\* a copy of, of which there is at least one.
DuplicateRowsAreDuplicateKeys ==
    (Scanned("duplicate rows") /\ Scanned("duplicate identifiers")) =>
        LET duplicate_mask == Findings("duplicate rows").duplicate_mask
            duplicate_ids == Findings("duplicate identifiers").duplicate_ids
        IN  \A i \in 1..df.nrows :
                duplicate_mask[i] =>
                    /\ duplicate_ids[i]
                    /\ \E j \in 1..(i - 1) : SameRow(i, j)
                    /\ \A j \in 1..(i - 1) : SameRow(i, j) => duplicate_ids[j]

\* C27: a row without customer_id, another row and a copy of the first have
\* been through both scans: the row scan shows the copy (row 2) and the key
\* scan shows the copy and the row it copies (rows 0 and 2).
CopiedRowWitness ==
    /\ data = DictOfRows(<<RowBo, RowAl, RowBo>>)
    /\ Scanned("duplicate rows")
    /\ Scanned("duplicate identifiers")
    /\ Findings("duplicate rows").shown = {2}
    /\ Findings("duplicate identifiers").shown = {0, 2}

\* C28: the 'Duplicate IDs exist' flag the duplicate-key scan prints (fewer
\* unique customer_id values than rows) is true exactly when the scan flags
\* at least one row, on every table, missing customer_id cells included.
DuplicateIdsExistMatchesFlags ==
    Scanned("duplicate identifiers") =>
        LET found == Findings("duplicate identifiers")
        IN  found.duplicate_ids_exist <=> (\E i \in 1..df.nrows : found.duplicate_ids[i])

\* The same, on the tables that hold a customer_id in every row.
DuplicateIdsExistMatchesFlagsOnPresentIds ==
    (/\ Scanned("duplicate identifiers")
     /\ \A i \in 1..df.nrows : NotNa(df.data["customer_id"][i])) =>
        LET found == Findings("duplicate identifiers")
        IN  found.duplicate_ids_exist <=> (\E i \in 1..df.nrows : found.duplicate_ids[i])

=============================================================================
